---- MODULE Spec2Model ----
(***************************************************************************)
(* MiraTTS Studio (src/app_mira.py): the output directory with its startup *)
(* cleanup, rotation and history listing, the sentence splitter and the    *)
(* "Generate Audio" handler.                                               *)
(*                                                                         *)
(* Text is a sequence of one-character strings; the string "U+00E9" stands *)
(* for the single non-ASCII character e-acute.  A file name is such a      *)
(* sequence too.  The output directory is a function from the names that   *)
(* are present to [kind, mtime, data]; data is the file's byte sequence,   *)
(* an ASCII byte written as its character and the other bytes as "xC3",    *)
(* "xA9", "xE9".                                                           *)
(*                                                                         *)
(* Time: clock counts half seconds of wall-clock time (the handler sleeps  *)
(* 0.5 s after every successful generation, line 201, so two writes are at *)
(* least one tick apart); a file's mtime is the tick of its write and the  *)
(* timestamp in its name is the second, clock \div 2.                      *)
(***************************************************************************)
EXTENDS Integers, Sequences, FiniteSets, TLC

VARIABLES
    pc,       \* "launch" before load_engine has run, "ready" after
    dir,      \* OUTPUT_FOLDER: name -> [kind, mtime, data]
    refs,     \* REFERENCE_FOLDER: the names of the reference clips
    clock,    \* wall-clock time in half seconds
    locale,   \* the encoding open() uses when none is given (line 195)
    faults,   \* what the environment may still do: [removals, intrusions]
    texts,    \* the texts the user may type (fixed)
    budget,   \* generations still allowed (bounds the run)
    nGen,     \* successful generations so far
    boot,     \* what cleanup_on_launch did: [listed, removed, failed]
    req,      \* the last "Generate Audio" request and what it did
    hist      \* the last get_history(): [raised, entries]

vars == <<pc, dir, refs, clock, locale, faults, texts, budget, nGen, boot, req, hist>>

(***************************** bounds **************************************)
\* Generations in one run of Spec.
MaxGen == 6
\* Generations in one run of SpecOld.
MaxOldGen == 2
\* Generations in one run of SpecEnv / SpecClean.
MaxEnvGen == 1
\* Artifacts already in the directory at the start of SpecOld / SpecEnv.
MaxOld == 6
\* Failing calls and intrusions of the environment in one run of SpecEnv /
\* SpecClean.
MaxFaults == 1
\* Length of the typed text in SpecSplit.
MaxLen == 5
\* Length of the transcript body in SpecPreview.
MaxBody == 62

(************************* program constants *******************************)
MAX_HISTORY == 5
PREVIEW_LEN == 60

Whitespace == {" ", "\n"}
Enders == {".", "!", "?"}
EAcute == "U+00E9"

NoRef == "None"
RefNames == {"voice.wav"}

Prefix == <<"m", "i", "r", "a", "_">>
ExtWav == <<".", "w", "a", "v">>
ExtTxt == <<".", "t", "x", "t">>
Placeholder == <<"N", "o", " ", "t", "e", "x", "t", " ", "f", "o", "u", "n", "d">>
Ellipsis == <<".", ".", ".">>
Digits == {"0", "1", "2", "3", "4", "5", "6", "7", "8", "9"}
DigitChar == <<"0", "1", "2", "3", "4", "5", "6", "7", "8", "9">>

(*************************** strings ***************************************)
StartsWith(s, p) == Len(s) >= Len(p) /\ SubSeq(s, 1, Len(p)) = p
EndsWith(s, p) == Len(s) >= Len(p) /\ SubSeq(s, Len(s) - Len(p) + 1, Len(s)) = p

RECURSIVE LStrip(_)
LStrip(s) == IF s # <<>> /\ Head(s) \in Whitespace THEN LStrip(Tail(s)) ELSE s

RECURSIVE RStrip(_)
RStrip(s) ==
    IF s # <<>> /\ s[Len(s)] \in Whitespace THEN RStrip(SubSeq(s, 1, Len(s) - 1)) ELSE s

\* A faulty variant of Strip, str.lstrip() in its place: trailing whitespace
\* stays.  C6 fails with it.
LStripOnly(s) == LStrip(s)

\* str.strip()
Strip(s) == RStrip(LStrip(s))

\* datetime.now().strftime("%Y%m%d-%H%M%S") for the second sec (< 60) of
\* 2024-01-01 00:00.
Strftime(sec) ==
    <<"2", "0", "2", "4", "0", "1", "0", "1", "-", "0", "0", "0", "0",
      DigitChar[(sec \div 10) + 1], DigitChar[(sec % 10) + 1]>>

\* wav_path.replace(".wav", ".txt"): every occurrence, left to right.  Two
\* occurrences of ".wav" cannot overlap and the replacement has its length, so
\* each occurrence is rewritten in place.  The folder part of the path,
\* "./static/output/", holds no ".wav".
ReplaceWavTxt(s) ==
    LET at == {j \in 1..(Len(s) - 3) :
                  s[j] = "." /\ s[j + 1] = "w" /\ s[j + 2] = "a" /\ s[j + 3] = "v"}
    IN [i \in 1..Len(s) |->
           IF \E j \in at : i \in j..(j + 3)
           THEN ExtTxt[i - (CHOOSE j \in at : i \in j..(j + 3)) + 1]
           ELSE s[i]]

\* A faulty variant of PatternMatch, the extension left unchecked
\* (r'^mira_\d{8}-\d{6}\.' only).  C2 fails with it.
PatternMatchAnyExt(filename) ==
    /\ Len(filename) >= 21
    /\ SubSeq(filename, 1, 5) = Prefix
    /\ \A i \in 6..13 : filename[i] \in Digits
    /\ filename[14] = "-"
    /\ \A i \in 15..20 : filename[i] \in Digits
    /\ filename[21] = "."

\* re.compile(r'^mira_\d{8}-\d{6}\.(wav|txt)$').match(filename); Python's $
\* also matches just before a newline that ends the string.
PatternMatch(filename) ==
    LET body == IF filename # <<>> /\ filename[Len(filename)] = "\n"
                THEN {filename, SubSeq(filename, 1, Len(filename) - 1)}
                ELSE {filename}
    IN \E s \in body :
          /\ Len(s) = 24
          /\ SubSeq(s, 1, 5) = Prefix
          /\ \A i \in 6..13 : s[i] \in Digits
          /\ s[14] = "-"
          /\ \A i \in 15..20 : s[i] \in Digits
          /\ SubSeq(s, 21, 24) \in {ExtWav, ExtTxt}

\* glob.glob(os.path.join(OUTPUT_FOLDER, "mira_*.wav")) on directory d
Glob(d) ==
    {n \in DOMAIN d :
        StartsWith(n, Prefix) /\ EndsWith(n, ExtWav) /\ Len(n) >= Len(Prefix) + Len(ExtWav)}

(*************************** split_text ************************************)
\* The last index of the whitespace run that starts at i.
RECURSIVE RunEnd(_, _)
RunEnd(s, i) == IF i < Len(s) /\ s[i + 1] \in Whitespace THEN RunEnd(s, i + 1) ELSE i

\* Where a match of (?<=[.!?])\s+ can start in s: at a whitespace character
\* that follows a sentence ender.
MatchStarts(s) == {j \in 2..Len(s) : s[j - 1] \in Enders /\ s[j] \in Whitespace}

\* re.split(r'(?<=[.!?])\s+', s) from index p on: the search takes the
\* leftmost match at or after p, the match takes the whole whitespace run,
\* and the search goes on behind it.
RECURSIVE ReSplitFrom(_, _)
ReSplitFrom(s, p) ==
    LET ahead == {j \in MatchStarts(s) : j >= p}
    IN IF ahead = {} THEN <<SubSeq(s, p, Len(s))>>
       ELSE LET i == CHOOSE j \in ahead : \A k \in ahead : j <= k
            IN <<SubSeq(s, p, i - 1)>> \o ReSplitFrom(s, RunEnd(s, i) + 1)

ReSplit(s) == ReSplitFrom(s, 1)

\* A faulty variant of StripNonEmpty, [s for s in pieces if s.strip()]: the
\* kept pieces are not stripped.  C7 fails with it.
KeepNonEmpty(pieces) == SelectSeq(pieces, LAMBDA piece : Strip(piece) # <<>>)

\* [s.strip() for s in pieces if s.strip()]
RECURSIVE StripNonEmpty(_)
StripNonEmpty(pieces) ==
    IF pieces = <<>> THEN <<>>
    ELSE IF Strip(Head(pieces)) # <<>>
         THEN <<Strip(Head(pieces))>> \o StripNonEmpty(Tail(pieces))
         ELSE StripNonEmpty(Tail(pieces))

\* A faulty variant of split_text, [s.strip() for s in pieces]: empty pieces
\* are kept.  C3 fails with it.
RECURSIVE StripAll(_)
StripAll(pieces) ==
    IF pieces = <<>> THEN <<>> ELSE <<Strip(Head(pieces))>> \o StripAll(Tail(pieces))

split_text_unfiltered(text) == StripAll(ReSplit(text))

split_text(text) == StripNonEmpty(ReSplit(text))

(*************************** files *****************************************)
EmptyDir == [n \in {} |-> [kind |-> "file", mtime |-> 0, data |-> <<>>]]

Without(d, names) == [n \in DOMAIN d \ names |-> d[n]]

\* open(path, "w") / sf.write(path, ...): creates or overwrites a regular file.
WriteFile(d, name, data, now) ==
    [n \in DOMAIN d \cup {name} |->
        IF n = name THEN [kind |-> "file", mtime |-> now, data |-> data] ELSE d[n]]

\* os.path.isfile
IsFile(d, n) == n \in DOMAIN d /\ d[n].kind = "file"

\* The samples sf.write stores; their values play no part here.
Waveform == <<"RIFF">>

\* One character in the encoding enc.
EncodeChar(ch, enc) ==
    IF ch = EAcute THEN (IF enc = "utf-8" THEN <<"xC3", "xA9">> ELSE <<"xE9">>) ELSE <<ch>>

\* f.write(user_text) on a file opened with open(txt_path, "w"): the text is
\* encoded in the locale's encoding (no encoding= is given), character by
\* character (computed by halves, to keep the evaluation shallow).
RECURSIVE Encode(_, _)
Encode(text, enc) ==
    IF text = <<>> THEN <<>>
    ELSE IF Len(text) = 1 THEN EncodeChar(text[1], enc)
    ELSE Encode(SubSeq(text, 1, Len(text) \div 2), enc)
         \o Encode(SubSeq(text, (Len(text) \div 2) + 1, Len(text)), enc)

\* UTF-8 of at most three bytes, decoded from the left: "xC3" leads a
\* sequence of two bytes, "xE9" one of three, "xA9" is a continuation byte
\* and every other byte is ASCII.
RECURSIVE DecodeShort(_)
DecodeShort(b) ==
    IF b = <<>> THEN [ok |-> TRUE, text |-> <<>>]
    ELSE LET n == IF Head(b) = "xC3" THEN 2 ELSE IF Head(b) = "xE9" THEN 3 ELSE 1
             valid == /\ Len(b) >= n
                      /\ \A i \in 2..n : b[i] = "xA9"
                      /\ Head(b) # "xA9"
             ch == IF n = 1 THEN Head(b) ELSE IF n = 2 THEN EAcute ELSE "U+9A69"
         IN IF ~valid THEN [ok |-> FALSE, text |-> <<>>]
            ELSE LET rest == DecodeShort(SubSeq(b, n + 1, Len(b)))
                 IN IF rest.ok THEN [ok |-> TRUE, text |-> <<ch>> \o rest.text]
                    ELSE [ok |-> FALSE, text |-> <<>>]

\* f.read() on open(txt_path, 'r', encoding='utf-8'): [ok, text]; ok is FALSE
\* where the read raises UnicodeDecodeError.  A character starts at every
\* byte that is no continuation byte, so a longer input is decoded in two
\* parts, cut at such a byte near its middle; four or more bytes with no such
\* byte after the first are no UTF-8.
RECURSIVE Decode(_)
Decode(b) ==
    IF Len(b) <= 3 THEN DecodeShort(b)
    ELSE LET starts == {i \in 2..Len(b) : b[i] # "xA9"}
             far(i) == IF 2 * i >= Len(b) THEN 2 * i - Len(b) ELSE Len(b) - 2 * i
         IN IF starts = {} THEN [ok |-> FALSE, text |-> <<>>]
            ELSE LET m == CHOOSE i \in starts : \A j \in starts : far(i) <= far(j)
                     left == Decode(SubSeq(b, 1, m - 1))
                     right == Decode(SubSeq(b, m, Len(b)))
                 IN IF left.ok /\ right.ok
                    THEN [ok |-> TRUE, text |-> left.text \o right.text]
                    ELSE [ok |-> FALSE, text |-> <<>>]

\* A faulty variant of Orders, the sort without reverse=True: oldest first.
\* C8 fails with it.
RECURSIVE OrdersAscending(_, _)
OrdersAscending(d, S) ==
    IF S = {} THEN {<<>>}
    ELSE LET bottom == {n \in S : \A m \in S : d[n].mtime <= d[m].mtime}
         IN UNION {{<<n>> \o r : r \in OrdersAscending(d, S \ {n})} : n \in bottom}

\* sorted(paths, key=os.path.getmtime, reverse=True): every order the sort can
\* return; files of equal mtime keep the order glob listed them in, which is
\* the directory's and so any.
RECURSIVE Orders(_, _)
Orders(d, S) ==
    IF S = {} THEN {<<>>}
    ELSE LET top == {n \in S : \A m \in S : d[n].mtime >= d[m].mtime}
         IN UNION {{<<n>> \o r : r \in Orders(d, S \ {n})} : n \in top}

\* seq[k:]
Drop(seq, k) == SubSeq(seq, k + 1, Len(seq))
\* seq[:k]
Take(seq, k) == SubSeq(seq, 1, IF Len(seq) < k THEN Len(seq) ELSE k)

Range(seq) == {seq[i] : i \in DOMAIN seq}

(*************************** cleanup_on_launch *****************************)
\* failing: the files whose os.remove raises (the exception is passed over).
cleanup_on_launch(d, failing) ==
    LET stray == {filename \in DOMAIN d : IsFile(d, filename) /\ ~PatternMatch(filename)}
    IN [dir |-> Without(d, stray \ failing),
        removed |-> stray \ failing,
        failed |-> stray \cap failing]

(*************************** rotate_files **********************************)
\* One os.remove(path): raises when the path is absent, a directory, or in
\* failing.
CanRemove(d, path, failing) == IsFile(d, path) /\ path \notin failing

\* The loop of lines 44-51 over wav_files[MAX_HISTORY:].
RECURSIVE RemoveLoop(_, _, _)
RemoveLoop(d, paths, failing) ==
    IF paths = <<>> THEN d
    ELSE LET wav_path == Head(paths)
             txt_path == ReplaceWavTxt(wav_path)
             d1 == Without(d, {wav_path})
             d2 == IF txt_path \in DOMAIN d1 /\ CanRemove(d1, txt_path, failing)
                   THEN Without(d1, {txt_path})
                   ELSE d1
         IN RemoveLoop(IF CanRemove(d, wav_path, failing) THEN d2 ELSE d,
                       Tail(paths), failing)

\* rotate_files() on directory d.  gone: the listed files another process
\* removes between glob.glob and os.path.getmtime; wav_files: the sorted
\* listing; failing: the paths whose os.remove raises.  raised: whether the
\* call raises to its caller.
rotate_files(d, gone, wav_files, failing) ==
    LET atStat == Without(d, gone)
    IN IF \E n \in Glob(d) : n \notin DOMAIN atStat
       THEN [dir |-> atStat, raised |-> TRUE]
       ELSE [dir |-> IF Len(wav_files) > MAX_HISTORY
                     THEN RemoveLoop(atStat, Drop(wav_files, MAX_HISTORY), failing)
                     ELSE atStat,
             raised |-> FALSE]

(*************************** get_history ***********************************)
Path(name) == <<"./static/output/">> \o name

\* The loop of lines 61-68 over wav_files[:MAX_HISTORY].
RECURSIVE HistoryLoop(_, _)
HistoryLoop(d, paths) ==
    IF paths = <<>> THEN [raised |-> FALSE, entries |-> <<>>]
    ELSE LET wav_path == Head(paths)
             txt_path == ReplaceWavTxt(wav_path)
             exists == txt_path \in DOMAIN d
             read == IF exists /\ d[txt_path].kind = "file"
                     THEN Decode(d[txt_path].data)
                     ELSE [ok |-> FALSE, text |-> <<>>]
             full == Strip(read.text)
             preview == IF ~exists THEN Placeholder
                        ELSE IF Len(full) > PREVIEW_LEN
                             THEN SubSeq(full, 1, PREVIEW_LEN) \o Ellipsis
                             ELSE full
             rest == HistoryLoop(d, Tail(paths))
         IN IF (exists /\ ~read.ok) \/ rest.raised
            THEN [raised |-> TRUE, entries |-> <<>>]
            ELSE [raised |-> FALSE,
                  entries |-> <<[wav |-> Path(wav_path), text |-> preview,
                                 name |-> wav_path]>> \o rest.entries]

\* get_history() on directory d; gone and wav_files as for rotate_files.
get_history(d, gone, wav_files) ==
    IF \E n \in Glob(d) : n \notin DOMAIN Without(d, gone)
    THEN [raised |-> TRUE, entries |-> <<>>]
    ELSE HistoryLoop(d, Take(wav_files, MAX_HISTORY))

(*************************** environment ***********************************)
\* faults.removals: the calls of cleanup_on_launch or rotate_files in which
\* os.remove may still raise; faults.intrusions: the directory scans during
\* which another process may still remove a file.  A quiet environment has
\* neither.
Quiet == [removals |-> 0, intrusions |-> 0]

\* The listed files another process may remove during one directory scan
\* (between glob.glob and os.path.getmtime): none, or one of them.
GoneChoices(S, f) == IF f.intrusions > 0 THEN {{}} \cup {{n} : n \in S} ELSE {{}}

\* The paths whose os.remove may raise.
FailChoices(S, f) == IF f.removals > 0 THEN SUBSET S ELSE {{}}

\* What a choice costs.
Cost(S) == IF S = {} THEN 0 ELSE 1

\* The faults left of f after a call whose removals failing raised and a scan
\* during which gone went away.
Spend(f, failing, gone) ==
    [removals |-> f.removals - Cost(failing), intrusions |-> f.intrusions - Cost(gone)]

\* What one run of the history column (line 210) can leave: the directory,
\* the listing and the faults left of f.
Refresh(d, f) ==
    UNION {{[dir |-> Without(d, gone), hist |-> get_history(d, gone, wav_files),
             faults |-> Spend(f, {}, gone)] :
                wav_files \in Orders(d, Glob(d))} : gone \in GoneChoices(Glob(d), f)}

(*************************** the script ************************************)
NoBoot == [listed |-> {}, removed |-> {}, failed |-> {}]
NoReq ==
    [text |-> <<>>, ref |-> NoRef, trace |-> <<>>, sentences |-> <<>>,
     contexts |-> <<>>, wav |-> <<>>, failed |-> "none", outcome |-> "none"]
NoHist == [raised |-> FALSE, entries |-> <<>>]

\* tts_engine.encode_audio(path): the model's context tokens for the clip.
encode_audio(path) == <<"context", path>>

\* load_engine(), run once per process: cleanup_on_launch, then the first
\* run of the script down to the history column.
Launch ==
    /\ pc = "launch"
    /\ \E failing \in FailChoices({n \in DOMAIN dir : IsFile(dir, n) /\ ~PatternMatch(n)},
                                  faults) :
          LET c == cleanup_on_launch(dir, failing)
          IN /\ boot' = [listed |-> DOMAIN dir, removed |-> c.removed, failed |-> c.failed]
             /\ \E h \in Refresh(c.dir, Spend(faults, failing, {})) :
                   dir' = h.dir /\ hist' = h.hist /\ faults' = h.faults
    /\ pc' = "ready"
    /\ UNCHANGED <<refs, clock, locale, texts, budget, nGen, req>>

\* The "Upload New" tab: save_reference, then st.rerun().
Upload ==
    /\ pc = "ready"
    /\ \E name \in RefNames : refs' = refs \cup {name}
    /\ \E h \in Refresh(dir, faults) :
          dir' = h.dir /\ hist' = h.hist /\ faults' = h.faults
    /\ UNCHANGED <<pc, clock, locale, texts, budget, nGen, boot, req>>

\* The ways a request's two model calls can end.
Fates == {"encode_fails", "generate_fails", "ok"}

\* The "Generate Audio" handler from the validation to batch_generate (lines
\* 147-183): the request so far; failed = "none" and outcome = "none" when
\* the audio is there to be saved.
Synthesize(user_text, selected_ref_path, fate) ==
    LET context_tokens == encode_audio(selected_ref_path)
        sentences == split_text(user_text)
        total == Len(sentences)
        batch_contexts == [i \in 1..total |-> context_tokens]
        r0 == [NoReq EXCEPT !.text = user_text, !.ref = selected_ref_path]
    IN IF user_text = <<>> \/ selected_ref_path = NoRef
       THEN [r0 EXCEPT !.failed = "validation", !.outcome = "validation_error"]
       ELSE IF fate = "encode_fails"
       THEN [r0 EXCEPT !.trace = <<"encode_audio">>, !.failed = "encode_audio",
                       !.outcome = "error"]
       ELSE IF total = 0
       THEN [r0 EXCEPT !.trace = <<"encode_audio">>, !.outcome = "nothing"]
       ELSE IF fate = "generate_fails"
       THEN [r0 EXCEPT !.trace = <<"encode_audio", "batch_generate">>,
                       !.sentences = sentences, !.contexts = batch_contexts,
                       !.failed = "batch_generate", !.outcome = "error"]
       ELSE [r0 EXCEPT !.trace = <<"encode_audio", "batch_generate">>,
                       !.sentences = sentences, !.contexts = batch_contexts]

\* The handler's "4. Save" (lines 188-196) at tick now, on directory d, for
\* the request r so far: [dir, req].  A directory of the name to write makes
\* the write raise.
Save(d, r, now) ==
    LET base_name == Prefix \o Strftime(now \div 2)
        wav_path == base_name \o ExtWav
        txt_path == base_name \o ExtTxt
        d1 == WriteFile(d, wav_path, Waveform, now)
        d2 == WriteFile(d1, txt_path, Encode(r.text, locale), now)
    IN IF wav_path \in DOMAIN d /\ d[wav_path].kind = "dir"
       THEN [dir |-> d, req |-> [r EXCEPT !.failed = "write_wav", !.outcome = "error"]]
       ELSE IF txt_path \in DOMAIN d /\ d[txt_path].kind = "dir"
       THEN [dir |-> d1,
             req |-> [r EXCEPT !.trace = r.trace \o <<"write_wav">>, !.wav = wav_path,
                               !.failed = "write_txt", !.outcome = "error"]]
       ELSE [dir |-> d2,
             req |-> [r EXCEPT !.trace = r.trace \o <<"write_wav", "write_txt">>,
                               !.wav = wav_path]]

\* The handler from rotate_files() on (lines 198-205): the request r after a
\* call of rotate_files that raised or not.
Rotated(r, raised) ==
    IF raised
    THEN [r EXCEPT !.trace = r.trace \o <<"rotate_files">>, !.failed = "rotate_files",
                   !.outcome = "error"]
    ELSE [r EXCEPT !.trace = r.trace \o <<"rotate_files", "rerun">>, !.outcome = "done"]

\* The paths rotate_files would try to remove from the sorted listing.
Doomed(wav_files) ==
    LET old == Range(Drop(wav_files, MAX_HISTORY))
    IN old \cup {ReplaceWavTxt(w) : w \in old}

\* The end of a click: the history column runs (after st.rerun(), or in the
\* same run when the handler reported an error) on directory d, the request
\* having become r at tick now, with the faults f left.
Settle(d, r, now, f) ==
    /\ req' = r
    /\ \E h \in Refresh(d, f) :
          dir' = h.dir /\ hist' = h.hist /\ faults' = h.faults
    /\ clock' = now
    /\ budget' = IF r.wav # <<>> THEN budget - 1 ELSE budget
    /\ nGen' = IF r.outcome = "done" THEN nGen + 1 ELSE nGen

\* One click on "Generate Audio": the handler, then the history column.
GenerateAudio ==
    /\ pc = "ready"
    /\ budget > 0
    /\ \E user_text \in texts, fate \in Fates :
       \E selected_ref_path \in (IF refs = {} THEN {NoRef} ELSE refs) :
       \E r \in {Synthesize(user_text, selected_ref_path, fate)} :
          IF r.outcome # "none"
          THEN Settle(dir, r, clock, faults)
          ELSE \E step \in 1..2 : \E s \in {Save(dir, r, clock + step)} :
                  IF s.req.outcome # "none"
                  THEN Settle(s.dir, s.req, clock + step, faults)
                  ELSE \E gone \in GoneChoices(Glob(s.dir), faults) :
                       \E wav_files \in Orders(s.dir, Glob(s.dir)) :
                       \E failing \in FailChoices(Doomed(wav_files), faults) :
                       \E rot \in {rotate_files(s.dir, gone, wav_files, failing)} :
                          Settle(rot.dir, Rotated(s.req, rot.raised), clock + step,
                                 Spend(faults, failing, gone))
    /\ UNCHANGED <<pc, refs, locale, texts, boot>>

Next == Launch \/ Upload \/ GenerateAudio

(*************************** specifications ********************************)
\* The texts typed in Spec: none, one of no sentence, and one of two
\* sentences that holds a non-ASCII character, so that the bytes of its
\* sidecar depend on the locale.
HeBye == <<"H", EAcute, ".", " ", "B", "y", "e", ".">>
SmallTexts == {<<>>, <<" ">>, HeBye}
Locales == {"utf-8", "latin-1"}

\* A fresh process on an empty output directory, in a quiet environment.
Init ==
    /\ pc = "launch"
    /\ dir = EmptyDir
    /\ refs = {}
    /\ clock = 0
    /\ locale \in Locales
    /\ faults = Quiet
    /\ texts = SmallTexts
    /\ budget = MaxGen
    /\ nGen = 0
    /\ boot = NoBoot
    /\ req = NoReq
    /\ hist = NoHist

Spec == Init /\ [][Next]_vars

(***************************************************************************)
(* SpecOld: a quiet environment again, the directory already holding k     *)
(* artifacts of an earlier run, named for the seconds 0..k-1, one of them  *)
(* possibly without its sidecar and one with a sidecar that is not UTF-8.  *)
(* SpecEnv: the same in an environment that may fail or interfere.         *)
(***************************************************************************)
ArtifactName(sec, ext) == Prefix \o Strftime(sec) \o ext

OldDir(k, missing, bad) ==
    [n \in {ArtifactName(s, ExtWav) : s \in 0..(k - 1)}
           \cup {ArtifactName(s, ExtTxt) : s \in (0..(k - 1)) \ {missing - 1}} |->
        LET s == CHOOSE t \in 0..(k - 1) : n \in {ArtifactName(t, ExtWav), ArtifactName(t, ExtTxt)}
        IN [kind |-> "file", mtime |-> 2 * s,
            data |-> IF EndsWith(n, ExtWav) THEN Waveform
                     ELSE IF s = bad - 1 THEN <<"xE9", ".">>
                     ELSE <<"o", "l", "d", ".">>]]

InitOldDir(env, gens, bads) ==
    /\ pc = "launch"
    /\ \E k \in 0..MaxOld : \E missing \in 0..k, bad \in 0..(IF bads THEN k ELSE 0) :
          dir = OldDir(k, missing, bad) /\ clock = 2 * k
    /\ refs = {}
    /\ locale = "utf-8"
    /\ faults = env
    /\ texts = SmallTexts
    /\ budget = gens
    /\ nGen = 0
    /\ boot = NoBoot
    /\ req = NoReq
    /\ hist = NoHist

InitOld == InitOldDir(Quiet, MaxOldGen, TRUE)
SpecOld == InitOld /\ [][Next]_vars

InitEnv ==
    InitOldDir([removals |-> MaxFaults, intrusions |-> MaxFaults], MaxEnvGen, FALSE)
SpecEnv == InitEnv /\ [][Next]_vars

(***************************************************************************)
(* SpecClean: a launch on a directory that holds stray entries, in an      *)
(* environment whose removals may fail (and nothing else).                 *)
(***************************************************************************)
StrayNotes == <<"n", "o", "t", "e", "s", ".", "t", "x", "t">>
StrayStem == Prefix \o <<"x">> \o ExtWav
StrayExt == Prefix \o Strftime(0) \o <<".", "m", "p", "3">>
NewlineName == ArtifactName(0, ExtWav) \o <<"\n">>
CleanNames ==
    {ArtifactName(0, ExtWav), ArtifactName(0, ExtTxt), StrayNotes, StrayStem, StrayExt,
     NewlineName}
\* The names that may also be directories at launch.
DirNames == {ArtifactName(0, ExtTxt), StrayNotes}

InitClean ==
    /\ pc = "launch"
    /\ \E present \in SUBSET CleanNames : \E dirs \in SUBSET (present \cap DirNames) :
          dir = [n \in present |->
                    [kind |-> IF n \in dirs THEN "dir" ELSE "file", mtime |-> 0,
                     data |-> IF n \in dirs \/ ~EndsWith(n, ExtTxt) THEN <<>>
                              ELSE <<"o", "l", "d", ".">>]]
    /\ clock = 0
    /\ refs = {}
    /\ locale = "utf-8"
    /\ faults = [removals |-> MaxFaults, intrusions |-> 0]
    /\ texts = SmallTexts
    /\ budget = MaxEnvGen
    /\ nGen = 0
    /\ boot = NoBoot
    /\ req = NoReq
    /\ hist = NoHist

SpecClean == InitClean /\ [][Next]_vars

(***************************************************************************)
(* SpecSplit: one request whose text is any string of at most MaxLen       *)
(* characters over SplitAlphabet.  SpecPreview: one request whose text is  *)
(* a body of up to MaxBody characters between optional whitespace.         *)
(***************************************************************************)
SplitAlphabet == {"a", ".", "?", " ", "\n"}

Strings(n) == UNION {[1..m -> SplitAlphabet] : m \in 0..n}

InitOne(typed) ==
    /\ pc = "launch"
    /\ dir = EmptyDir
    /\ clock = 0
    /\ refs = {}
    /\ faults = Quiet
    /\ texts = {typed}
    /\ budget = 1
    /\ nGen = 0
    /\ boot = NoBoot
    /\ req = NoReq
    /\ hist = NoHist

InitSplit == locale = "utf-8" /\ \E typed \in Strings(MaxLen) : InitOne(typed)
SpecSplit == InitSplit /\ [][Next]_vars

\* lead, n - 1 times ch, a closing "z", trail.
Transcript(lead, ch, n, trail) ==
    lead \o [i \in 1..n |-> IF i = n THEN "z" ELSE ch] \o trail

InitPreview ==
    /\ locale \in Locales
    /\ \E lead \in {<<>>, <<" ">>}, trail \in {<<>>, <<" ">>, <<"\n">>} :
       \E ch \in {"a", EAcute}, n \in 1..MaxBody :
          InitOne(Transcript(lead, ch, n, trail))
SpecPreview == InitPreview /\ [][Next]_vars

(***************************************************************************)
(* The claims.  What follows is stated from the specification's side: the  *)
(* notions below are written without the operators of the program above.   *)
(***************************************************************************)
Min(a, b) == IF a < b THEN a ELSE b

AudioFiles(d) == {n \in DOMAIN d : EndsWith(n, ExtWav)}

\* The text file of the same base name as audio file w, and back.
SidecarOf(w) == SubSeq(w, 1, Len(w) - Len(ExtWav)) \o ExtTxt
AudioOf(t) == SubSeq(t, 1, Len(t) - Len(ExtTxt)) \o ExtWav

\* mira_<timestamp> names for the seconds of the model's minute.
Stamped(ext) == {Prefix \o Strftime(sec) \o ext : sec \in 0..59}

\* t without its leading and trailing whitespace.
Core(t) ==
    LET ink == {i \in DOMAIN t : t[i] \notin Whitespace}
    IN IF ink = {} THEN <<>>
       ELSE SubSeq(t, CHOOSE i \in ink : \A j \in ink : i <= j,
                      CHOOSE i \in ink : \A j \in ink : i >= j)

\* Every whitespace run of s as one space.
RECURSIVE Squeeze(_)
Squeeze(s) ==
    IF s = <<>> THEN <<>>
    ELSE IF Head(s) \notin Whitespace THEN <<Head(s)>> \o Squeeze(Tail(s))
    ELSE IF Tail(s) # <<>> /\ Head(Tail(s)) \in Whitespace THEN Squeeze(Tail(s))
    ELSE <<" ">> \o Squeeze(Tail(s))

\* The whitespace-normalized s: runs collapsed, ends trimmed.
Normalize(s) == Core(Squeeze(s))

\* " ".join(ss)
RECURSIVE Join(_)
Join(ss) ==
    IF ss = <<>> THEN <<>>
    ELSE IF Len(ss) = 1 THEN ss[1]
    ELSE ss[1] \o <<" ">> \o Join(Tail(ss))

\* s holds no sentence terminator followed by whitespace.
Unbroken(s) ==
    ~\E i \in 1..(Len(s) - 1) : s[i] \in {".", "!", "?"} /\ s[i + 1] \in Whitespace

\* The positions of step x in the trace of the last request.
At(x) == {i \in DOMAIN req.trace : req.trace[i] = x}

(***************************** C1 ******************************************)
\* C1, as stated: starting from an empty output directory, once N generations
\* have succeeded the directory holds exactly min(N, MAX_HISTORY) audio
\* files, each named mira_<timestamp>.wav and each written by one of those
\* generations.  Two generations within one second share a name, so this
\* does not hold.
C1_CountIsMinOfNAndFive ==
    pc = "ready" =>
       /\ Cardinality(AudioFiles(dir)) = Min(nGen, MAX_HISTORY)
       /\ \A n \in AudioFiles(dir) : n \in Stamped(ExtWav) /\ dir[n].mtime \in 1..clock

(***************************** C3 ******************************************)
\* C3: a request that fails validation, that splits into no sentence, or
\* whose model call raises, creates, changes and deletes no file and runs
\* neither a write nor rotate_files; a request that fails validation makes
\* no model call either.
C3_Fruitless(r) ==
    \/ r.failed \in {"validation", "encode_audio", "batch_generate"}
    \/ r.text # <<>> /\ r.ref # NoRef /\ Core(r.text) = <<>>

C3_FailedRequestTouchesNothing ==
    [][C3_Fruitless(req') =>
          /\ dir' = dir
          /\ At("write_wav")' = {} /\ At("write_txt")' = {} /\ At("rotate_files")' = {}
          /\ (req'.text = <<>> \/ req'.ref = NoRef) => req'.trace = <<>>]_vars

\* A model call has raised with artifacts of earlier requests in place.
C3_Witness == req.failed = "batch_generate" /\ AudioFiles(dir) # {}

(***************************** C4 ******************************************)
\* C4, as stated: a request with a reference and a text of n >= 1 sentences
\* whose model calls succeed encodes once, generates once for the n
\* sentences with n copies of the one context, writes its pair, rotates,
\* reruns, and the history read next lists the new pair first.  The history
\* read fails when the sidecar was written in a locale encoding that is not
\* UTF-8 (the defect of C5), so this does not hold.
C4_RequestEndsInHistory ==
    (req.failed = "none" /\ req.wav # <<>>) =>
       /\ req.trace = <<"encode_audio", "batch_generate", "write_wav", "write_txt",
                        "rotate_files", "rerun">>
       /\ Len(req.sentences) >= 1
       /\ Len(req.contexts) = Len(req.sentences)
       /\ \A i \in DOMAIN req.contexts : req.contexts[i] = req.contexts[1]
       /\ ~hist.raised
       /\ hist.entries # <<>>
       /\ hist.entries[1].name = req.wav

(***************************** C5 ******************************************)
\* C5, as stated: get_history never fails because of a sidecar: an audio
\* file whose sidecar is absent or cannot be read gets the placeholder, and
\* the other entries are returned all the same.  The read of an existing
\* sidecar is unguarded, so this does not hold.
C5_HistoryToleratesSidecars ==
    pc = "ready" =>
       /\ ~hist.raised
       /\ Len(hist.entries) = Min(Cardinality(Glob(dir)), MAX_HISTORY)
       /\ \A i \in DOMAIN hist.entries :
             LET t == SidecarOf(hist.entries[i].name)
             IN (t \notin DOMAIN dir \/ ~Decode(dir[t].data).ok)
                   => hist.entries[i].text = Placeholder

(***************************** C8 ******************************************)
\* C8: a generation runs rotate_files exactly once, after the audio file and
\* the text file have been written, and the pair it wrote is there after the
\* rotation, as written.
C8_RotateOnceAndKeepNewPair ==
    req.outcome = "done" =>
       /\ Cardinality(At("rotate_files")) = 1
       /\ \A r \in At("rotate_files") :
             (\E w \in At("write_wav") : w < r) /\ (\E t \in At("write_txt") : t < r)
       /\ req.wav \in DOMAIN dir
       /\ SidecarOf(req.wav) \in DOMAIN dir
       /\ dir[req.wav].mtime = clock
       /\ dir[SidecarOf(req.wav)].mtime = clock

\* A generation has ended whose rotation removed an audio file found at launch.
C8_Witness ==
    /\ req.outcome = "done"
    /\ \E n \in boot.listed : EndsWith(n, ExtWav) /\ n \notin DOMAIN dir

(***************************** C9 ******************************************)
\* C9, as stated: no failure inside rotate_files reaches the caller.  The
\* sort of the listing by os.path.getmtime is outside the try, so a file
\* that vanishes after the listing makes the call raise.
C9_RotateNeverRaises == req.failed # "rotate_files"

(***************************** C10 *****************************************)
\* C10, as stated: whenever rotate_files deletes an audio file, the text file
\* of its base name is deleted with it, so that, every text file having its
\* audio file before, none is left without it after.  (Steps in which
\* another process removes a file are not rotate_files' doing and are left
\* aside.)  A removal of the text file that fails leaves it behind, so this
\* does not hold.
C10_NoOrphan(d) ==
    \A t \in DOMAIN d : EndsWith(t, ExtTxt) => AudioOf(t) \in DOMAIN d

C10_SidecarGoesWithAudio ==
    [][(faults'.intrusions = faults.intrusions /\ C10_NoOrphan(dir)) =>
          /\ \A w \in AudioFiles(dir) :
                w \notin DOMAIN dir' => SidecarOf(w) \notin DOMAIN dir'
          /\ C10_NoOrphan(dir')]_vars

(***************************** C2 ******************************************)
\* C2, as stated: cleanup_on_launch deletes exactly the entries whose name
\* does not match mira_<8 digits>-<6 digits>.(wav|txt), and leaves every
\* entry whose name matches present and unchanged.  Directories, files whose
\* removal fails and a matching name with a newline behind it stay, so this
\* does not hold.
C2_Matches(n) == n \in Stamped(ExtWav) \cup Stamped(ExtTxt)

C2_Untouched(n) == n \in DOMAIN dir' /\ dir'[n] = dir[n]

C2_Spared(n) ==
    \/ C2_Matches(n)
    \/ n # <<>> /\ n[Len(n)] = "\n" /\ C2_Matches(SubSeq(n, 1, Len(n) - 1))
    \/ dir[n].kind = "dir"
    \/ n \in boot'.failed

C6_Preview(s) ==
    IF Len(s) <= PREVIEW_LEN THEN s ELSE SubSeq(s, 1, PREVIEW_LEN) \o <<".", ".", ".">>

\* The last request wrote its pair and the history was read after it.
C6_Listed == req.outcome = "done" /\ ~hist.raised

\* C6, as stated: the history preview of a stored transcript t is t verbatim
\* when len(t) <= 60, and the first 60 characters of t and an ellipsis when
\* len(t) > 60.  The preview is taken from the transcript without its outer
\* whitespace, so this does not hold.
C6_PreviewOfTranscript ==
    C6_Listed => hist.entries[1].text = C6_Preview(req.text)

\* C6, amended: for a stored transcript t that the history reads back, with
\* s = t without leading and trailing whitespace, the preview is s verbatim
\* when len(s) <= 60, and the first 60 characters of s and "..." when
\* len(s) > 60.
C6_PreviewOfTrimmedTranscript ==
    C6_Listed => hist.entries[1].text = C6_Preview(Core(req.text))

\* A transcript of 62 characters, 61 without its trailing whitespace, has
\* been listed.
C6_Witness ==
    /\ C6_Listed
    /\ Len(req.text) = PREVIEW_LEN + 2
    /\ Len(Core(req.text)) = PREVIEW_LEN + 1
    /\ Len(hist.entries[1].text) = PREVIEW_LEN + 3

(***************************** C7 ******************************************)
\* The last request has split its text (and req.sentences is the result).
C7_Split == req.trace # <<>> /\ req.failed # "encode_audio"

\* What C7 says of split_text's elements, and of a text without a split point.
C7_Elements(t, ss) ==
    /\ \A i \in DOMAIN ss : ss[i] # <<>> /\ Core(ss[i]) = ss[i]
    /\ Unbroken(t) => ss = IF Core(t) = <<>> THEN <<>> ELSE <<Core(t)>>

\* C7, as stated: split_text returns elements none of which is empty or
\* whitespace-only and each of which is trimmed; joined with single spaces
\* they equal the input with its whitespace normalized; an input with no
\* terminator followed by whitespace yields the trimmed string alone, or
\* nothing when that is empty.  Whitespace inside a sentence is kept as it
\* is, so the join is not the normalized input.
C7_JoinIsNormalizedInput ==
    C7_Split =>
       /\ C7_Elements(req.text, req.sentences)
       /\ Join(req.sentences) = Normalize(req.text)

\* C7, amended: as above, but the join equals the normalized input only once
\* it is whitespace-normalized itself.
C7_NormalizedJoinIsNormalizedInput ==
    C7_Split =>
       /\ C7_Elements(req.text, req.sentences)
       /\ Normalize(Join(req.sentences)) = Normalize(req.text)

\* A text with a two-character whitespace run at its split point has been
\* split in two.
C7_Witness ==
    /\ C7_Split
    /\ req.text = <<"a", ".", " ", "\n", "a">>
    /\ req.sentences = << <<"a", ".">>, <<"a">> >>

====
